---- MODULE Spec2Model ----
(***************************************************************************)
(* Model of the symbol geometry synthesis engine (style registry and the   *)
(* generators 'G*M*BCD---' and 'G*T*X-----') and of the measure tool's     *)
(* draw-interaction handling.                                              *)
(*                                                                         *)
(* Numbers are exact rationals <<num, den>> (den > 0, lowest terms).       *)
(* Angles are bearings of axis-aligned segments, counted in quarter turns  *)
(* (1 unit = pi/2), so that sine and cosine stay rational.                 *)
(***************************************************************************)
EXTENDS Integers, Sequences, FiniteSets, TLC

\* ------------------------------------------------------------------------
\* Bounds of the model
\* ------------------------------------------------------------------------

\* widths are 0, 4 and 5, 10, ..., 5 * MaxWidthSteps
MaxWidthSteps == 3

\* resolutions are 0 .. MaxResolution
MaxResolution == 2

\* the measure tool creates at most this many draw interactions
MaxInteractions == 4

\* project ids are 1 .. MaxProjects; filters are 0 ('') and the project ids
MaxProjects == 2

\* the project list starts at most this many fetch calls
MaxFetches == 3

\* the project list starts at most this many reconnect attempts
MaxReconnects == 3

\* ------------------------------------------------------------------------
\* Numbers
\* ------------------------------------------------------------------------

Abs(n) == IF n < 0 THEN -n ELSE n

RECURSIVE GCD(_, _)
GCD(a, b) == IF b = 0 THEN a ELSE GCD(b, a % b)

\* the rational n/d in lowest terms with a positive denominator (d # 0)
Rat(n, d) ==
  LET g == GCD(Abs(n), Abs(d))
      s == IF d < 0 THEN -1 ELSE 1
  IN <<(s * n) \div g, (s * d) \div g>>

RInt(n) == <<n, 1>>
RAdd(a, b) == Rat(a[1] * b[2] + b[1] * a[2], a[2] * b[2])
RSub(a, b) == Rat(a[1] * b[2] - b[1] * a[2], a[2] * b[2])
RMul(a, b) == Rat(a[1] * b[1], a[2] * b[2])
\* a / b for b # 0
RDiv(a, b) == Rat(a[1] * b[2], a[2] * b[1])
RLeq(a, b) == a[1] * b[2] <= b[1] * a[2]
RPositive(a) == a[1] > 0
\* Math.floor
Floor(a) == a[1] \div a[2]

Zero == RInt(0)

\* Math.PI, in quarter turns
PI == 2

\* ------------------------------------------------------------------------
\* Geometry kernel (TS)
\* ------------------------------------------------------------------------

Coord(x, y) == [x |-> x, y |-> y]
Pt(x, y) == Coord(RInt(x), RInt(y))

VAdd(a, b) == Coord(RAdd(a.x, b.x), RAdd(a.y, b.y))
VSub(a, b) == Coord(RSub(a.x, b.x), RSub(a.y, b.y))
VScale(k, a) == Coord(RMul(k, a.x), RMul(k, a.y))
Dot(a, b) == RAdd(RMul(a.x, b.x), RMul(a.y, b.y))
Cross(a, b) == RSub(RMul(a.x, b.y), RMul(a.y, b.x))

\* TS.lineString, TS.point, TS.collect: constructors
LineString(coords) == [type |-> "LineString", coords |-> coords]
Point(coord) == [type |-> "Point", coords |-> <<coord>>]
Collect(geometries) == [type |-> "GeometryCollection", parts |-> geometries]

\* TS.coordinates: the vertex list of a geometry
Coordinates(geometry) == geometry.coords

\* TS.startPoint, TS.endPoint
StartPoint(lineString) == Point(lineString.coords[1])
EndPoint(lineString) == Point(lineString.coords[Len(lineString.coords)])

\* TS.segment: from a coordinate list, the first and the last coordinate
Segment(a, b) == [p0 |-> a, p1 |-> b]
SegmentOf(coords) == Segment(coords[1], coords[Len(coords)])
Degenerate(segment) == segment.p0 = segment.p1

\* the bearings the model covers: segments parallel to an axis
AxisAligned(segment) ==
  LET d == VSub(segment.p1, segment.p0)
  IN (d.x = Zero) # (d.y = Zero)

\* segment.angle(): atan2(dy, dx) in (-pi, pi], in quarter turns
Angle(segment) ==
  LET d == VSub(segment.p1, segment.p0)
  IN CASE d.y = Zero /\ RPositive(d.x) -> 0
       [] d.x = Zero /\ RPositive(d.y) -> 1
       [] d.y = Zero /\ ~RPositive(d.x) /\ d.x # Zero -> 2
       [] d.x = Zero /\ ~RPositive(d.y) /\ d.y # Zero -> -1

\* segment.midPoint(): arithmetic mean of the endpoints
MidPoint(segment) ==
  VScale(Rat(1, 2), VAdd(segment.p0, segment.p1))

\* unit vector at a bearing, and the same rotated by +pi/2
Dir(angle) ==
  CASE angle = 0 -> Pt(1, 0)
    [] angle = 1 -> Pt(0, 1)
    [] angle = 2 -> Pt(-1, 0)
    [] angle = -1 -> Pt(0, -1)
Perp(angle) == LET d == Dir(angle) IN Coord(RSub(Zero, d.y), d.x)

\* TS.projectCoordinates(distance, angle, origin)(offsets):
\* origin + along * distance * dir + perp * distance * perp, for each offset
ProjectCoordinates(distance, angle, origin, offsets) ==
  [i \in 1..Len(offsets) |->
     VAdd(origin,
          VAdd(VScale(RMul(offsets[i][1], distance), Dir(angle)),
               VScale(RMul(offsets[i][2], distance), Perp(angle))))]

\* segment.pointAlong(fraction)
PointAlong(segment, fraction) ==
  VAdd(segment.p0, VScale(fraction, VSub(segment.p1, segment.p0)))

\* TS.segmentize(segment, n), n >= 1: the n + 1 points dividing it evenly
Segmentize(segment, n) ==
  [i \in 1..(n + 1) |-> PointAlong(segment, Rat(i - 1, n))]

\* TS.lineBuffer, TS.pointBuffer, TS.boundary, TS.difference: regions are
\* kept as terms over their arguments
LineBuffer(lineString, width) ==
  [type |-> "LineBuffer", of |-> lineString, width |-> width]
PointBuffer(point, radius) ==
  [type |-> "PointBuffer", of |-> point, width |-> radius]
Boundary(region) == [type |-> "Boundary", parts |-> <<region>>]
Difference(regions) == [type |-> "Difference", parts |-> regions]

\* openArrow(resolution, angle, coord): the arrow marker anchored at coord
OpenArrow(resolution, angle, coord) ==
  [type |-> "OpenArrow", coords |-> <<coord>>, angle |-> angle,
   resolution |-> resolution]

\* ------------------------------------------------------------------------
\* Ramda helpers and array filters
\* ------------------------------------------------------------------------

\* array.filter((_, i) => i % 2 === parity), 0-based index i
RECURSIVE FilterIndex(_, _, _)
FilterIndex(xs, parity, i) ==
  IF i > Len(xs) THEN <<>>
  ELSE IF (i - 1) % 2 = parity
       THEN <<xs[i]>> \o FilterIndex(xs, parity, i + 1)
       ELSE FilterIndex(xs, parity, i + 1)

Min(a, b) == IF a <= b THEN a ELSE b

\* R.flatten(R.zip(as, bs)): pairs up to the shorter list, then flattened
FlattenZip(as, bs) ==
  [i \in 1..(2 * Min(Len(as), Len(bs))) |->
     IF i % 2 = 1 THEN as[(i + 1) \div 2] ELSE bs[i \div 2]]

\* ------------------------------------------------------------------------
\* Drawable primitives (the context's constructors) and results
\* ------------------------------------------------------------------------

DashedStroke(geometry) ==
  [kind |-> "Stroke", dashed |-> TRUE, geometry |-> geometry]
SolidStroke(geometry) ==
  [kind |-> "Stroke", dashed |-> FALSE, geometry |-> geometry]
DefaultStroke(geometry) ==
  [kind |-> "Stroke", dashed |-> FALSE, geometry |-> geometry]
Text(point, options) ==
  [kind |-> "Label", anchor |-> point.coords[1], text |-> options.text,
   rotation |-> options.rotation, flip |-> options.flip]

Success(primitives) == [status |-> "ok", prims |-> primitives]
Failure(condition) == [status |-> condition, prims |-> <<>>]
NoResult == [status |-> "none", prims |-> <<>>]

\* ------------------------------------------------------------------------
\* Generator 'G*M*BCD---' (FORD DIFFICULT, obstacle boundary)
\* ------------------------------------------------------------------------

\* variant: the subdivision count clamped to at least 1
FordDifficultNClamped(width, resolution) ==
  LET n == Floor(RDiv(RDiv(width, resolution), RInt(5)))
  IN IF n < 1 THEN 1 ELSE n

\* n = Math.floor(width / resolution / 5), for resolution # 0
FordDifficultN(width, resolution) ==
  Floor(RDiv(RDiv(width, resolution), RInt(5)))

\* the two ends of the cross-bar: width / 1.5 to either side of the midpoint
FordDifficultBar(width, angle, midPoint) ==
  ProjectCoordinates(RDiv(width, Rat(3, 2)), angle, midPoint,
                     <<<<Zero, RInt(1)>>, <<Zero, RInt(-1)>>>>)

\* [p00, p01] resp. [p10, p11]: resolution * 4 back and forth along the line
FordDifficultSide(resolution, angle, p) ==
  ProjectCoordinates(RMul(resolution, RInt(4)), angle, p,
                     <<<<RInt(-1), Zero>>, <<RInt(1), Zero>>>>)

\* variant: the even-indexed points of both sides
FordDifficultZigZagEvenOnly(p00, p10, p01, p11, n) ==
  FlattenZip(FilterIndex(Segmentize(Segment(p00, p10), n), 0, 1),
             FilterIndex(Segmentize(Segment(p01, p11), n), 0, 1))

\* x: even-indexed points of p00->p10 zipped with odd-indexed of p01->p11
FordDifficultZigZag(p00, p10, p01, p11, n) ==
  FlattenZip(FilterIndex(Segmentize(Segment(p00, p10), n), 0, 1),
             FilterIndex(Segmentize(Segment(p01, p11), n), 1, 1))

\* the dashed outline: buffer boundary minus the two end-cap disks
FordDifficultOutline(lineString, width) ==
  Difference(<<Boundary(LineBuffer(lineString, RDiv(width, RInt(2)))),
               PointBuffer(StartPoint(lineString), RDiv(width, RInt(2))),
               PointBuffer(EndPoint(lineString), RDiv(width, RInt(2)))>>)

\* the returned array
FordDifficultPrimitives(outline, x) ==
  <<DashedStroke(outline), SolidStroke(LineString(x))>>

FordDifficult(lineString, width, resolution) ==
  LET coords == Coordinates(lineString)
      segment == SegmentOf(coords)
  IN IF Degenerate(segment) THEN Failure("DegenerateGeometry")
     ELSE
       LET angle == Angle(segment)
           midPoint == MidPoint(segment)
           bar == FordDifficultBar(width, angle, midPoint)
           s0 == FordDifficultSide(resolution, angle, bar[1])
           s1 == FordDifficultSide(resolution, angle, bar[2])
           p00 == s0[1]
           p01 == s0[2]
           p10 == s1[1]
           p11 == s1[2]
           n == FordDifficultN(width, resolution)
       IN IF Degenerate(Segment(p00, p10)) THEN Failure("DegenerateGeometry")
          ELSE IF n < 1 THEN Failure("InvalidParameter")
          ELSE IF Degenerate(Segment(p01, p11))
               THEN Failure("DegenerateGeometry")
          ELSE Success(FordDifficultPrimitives(
                         FordDifficultOutline(lineString, width),
                         FordDifficultZigZag(p00, p10, p01, p11, n)))

\* ------------------------------------------------------------------------
\* Generator 'G*T*X-----' (TASKS / CLEAR, task boundary)
\* ------------------------------------------------------------------------

\* variant: the whole width as the distance
ClearStartOffsetsFullWidth(width, angle, coord) ==
  ProjectCoordinates(width, angle, coord,
                     <<<<Zero, Rat(3, 4)>>, <<Zero, Rat(-3, 4)>>>>)

\* [p00, p01]: width / 2 * (+-0.75) off coords[0]
ClearStartOffsets(width, angle, coord) ==
  ProjectCoordinates(RDiv(width, RInt(2)), angle, coord,
                     <<<<Zero, Rat(3, 4)>>, <<Zero, Rat(-3, 4)>>>>)

\* [p10, p11, p20, p21]: width / 2 * (+-0.75, +-1) off coords[1]
ClearEndOffsets(width, angle, coord) ==
  ProjectCoordinates(RDiv(width, RInt(2)), angle, coord,
                     <<<<Zero, Rat(3, 4)>>, <<Zero, Rat(-3, 4)>>,
                       <<Zero, RInt(1)>>, <<Zero, RInt(-1)>>>>)

\* the three arrows, at p10, coords[1] and p11
ClearArrows(resolution, angle, anchors) ==
  [i \in 1..Len(anchors) |-> OpenArrow(resolution, angle, anchors[i])]

\* the stroke group: the base line, three strokes and the arrows
ClearGeometry(lineString, width, resolution, angle) ==
  LET coords == Coordinates(lineString)
      a == ClearStartOffsets(width, angle, coords[1])
      b == ClearEndOffsets(width, angle, coords[2])
      p00 == a[1]
      p01 == a[2]
      p10 == b[1]
      p11 == b[2]
      p20 == b[3]
      p21 == b[4]
  IN Collect(<<lineString,
               LineString(<<p00, p10>>),
               LineString(<<p01, p11>>),
               LineString(<<p20, p21>>)>>
             \o ClearArrows(resolution, angle, <<p10, coords[2], p11>>))

\* variant: rotation angle - pi
ClearLabelAngleMinusPi(segment, angle) ==
  Text(Point(MidPoint(segment)),
       [text |-> "C", flip |-> TRUE, rotation |-> angle - PI])

\* the label 'C'
ClearLabel(segment, angle) ==
  Text(Point(MidPoint(segment)),
       [text |-> "C", flip |-> TRUE, rotation |-> PI - angle])

\* variant: the label first
ClearPrimitivesLabelFirst(geometry, label) ==
  <<label, DefaultStroke(geometry)>>

\* the returned array
ClearPrimitives(geometry, label) == <<DefaultStroke(geometry), label>>

Clear(lineString, width, resolution) ==
  LET coords == Coordinates(lineString)
      segment == SegmentOf(coords)
  IN IF Degenerate(segment) THEN Failure("DegenerateGeometry")
     ELSE
       LET angle == Angle(segment)
       IN Success(ClearPrimitives(
                    ClearGeometry(lineString, width, resolution, angle),
                    ClearLabel(segment, angle)))

\* ------------------------------------------------------------------------
\* Style registry and the entry point
\* ------------------------------------------------------------------------

FRDDFT == "G*M*BCD---"
CLEAR == "G*T*X-----"
\* an identifier no module of the model registers
UNKNOWN == "G*G*GLB---"
Identifiers == {FRDDFT, CLEAR, UNKNOWN}

Generators == {"FordDifficult", "Clear"}
None == "none"

\* the generator function applied to its arguments
Generate(generator, lineString, width, resolution) ==
  CASE generator = "FordDifficult" ->
         FordDifficult(lineString, width, resolution)
    [] generator = "Clear" -> Clear(lineString, width, resolution)

\* variant: the width is not validated
SynthesizeWidthUnchecked(registry, identifier, lineString, width, resolution) ==
  IF ~RPositive(resolution) THEN Failure("InvalidParameter")
  ELSE IF registry[identifier] = None THEN Failure("NotFound")
  ELSE Generate(registry[identifier], lineString, width, resolution)

\* synthesize(identifier, baseGeometry, width, resolution)
SynthesizeResult(registry, identifier, lineString, width, resolution) ==
  IF ~(RPositive(width) /\ RPositive(resolution))
  THEN Failure("InvalidParameter")
  ELSE IF registry[identifier] = None THEN Failure("NotFound")
  ELSE Generate(registry[identifier], lineString, width, resolution)

\* ------------------------------------------------------------------------
\* Inputs
\* ------------------------------------------------------------------------

Widths ==
  {RInt(0), RInt(4)} \cup {RInt(5 * k) : k \in 1..MaxWidthSteps}
Resolutions == {RInt(r) : r \in 0..MaxResolution}

BaseLines ==
  { LineString(<<Pt(0, 0), Pt(100, 0)>>),
    LineString(<<Pt(0, 0), Pt(10, 0)>>),
    LineString(<<Pt(10, 0), Pt(0, 0)>>),
    LineString(<<Pt(3, 9), Pt(3, 1)>>),
    LineString(<<Pt(0, 0), Pt(4, 0), Pt(4, 3), Pt(0, 0)>>),
    LineString(<<Pt(0, 0), Pt(4, 3), Pt(8, 0)>>),
    LineString(<<Pt(0, 0), Pt(4, 3), Pt(4, 7), Pt(0, 8)>>) }

\* ------------------------------------------------------------------------
\* State
\* ------------------------------------------------------------------------

VARIABLES
  \* style engine
  styles,       \* the registry: identifier -> generator or None
  lineString,   \* the caller's base geometry
  width,        \* the caller's stroke width
  resolution,   \* the caller's sampling resolution
  call,         \* identifier and generator of the last synthesize, and
                \* whether that generator had run on these inputs before
  result,       \* what the last synthesize returned
  seen,         \* per generator, what it first returned for these inputs
  given,        \* the base geometry as the caller handed it over
  \* measure tool
  created,                 \* number of draw interactions created so far
  mapDraws,                \* the tool's draw interactions attached to the map
  currentDrawInteraction,  \* reference to the current draw interaction
  sketching,               \* draw interactions with a drawing in progress
  circleFeature,           \* the circle helper feature last created
  source,                  \* features of the measurement source
  selectedFeatures,        \* the selection collection
  event,                   \* the event handled last
  \* project list
  filter,        \* the search filter (React state)
  replication,   \* whether the replicated project list is set (React state)
  offline,       \* React state
  initialized,   \* React state
  initPc,        \* where initializeReplication stands
  connecting,    \* reconnect attempts awaiting replicationProvider.connect
  attempts,      \* number of reconnect attempts started so far
  store,         \* ids of the projects in the project store
  remote,        \* ids the replication API reports as invited
  fetches,       \* the fetch calls: position and captured values of each
  started,       \* number of fetch calls started so far
  entries,       \* the entry list dispatched last
  entriesBy      \* the fetch call that dispatched it, and its filter

styleVars ==
  <<styles, lineString, width, resolution, call, result, seen, given>>
measureVars ==
  <<created, mapDraws, currentDrawInteraction, sketching, circleFeature,
    source, selectedFeatures, event>>
projectVars ==
  <<filter, replication, offline, initialized, initPc, connecting, attempts,
    store, remote, fetches, started, entries, entriesBy>>
vars == <<styleVars, measureVars, projectVars>>

\* ------------------------------------------------------------------------
\* Style engine: registration and synthesize
\* ------------------------------------------------------------------------

NoCall == [id |-> None, generator |-> None, repeat |-> FALSE]
NothingSeen == [g \in Generators |-> NoResult]

StyleInit(ls, w, r) ==
  /\ styles = [id \in Identifiers |-> None]
  /\ lineString = ls
  /\ width = w
  /\ resolution = r
  /\ call = NoCall
  /\ result = NoResult
  /\ seen = NothingSeen
  /\ given = ls

\* styles[identifier] = generator (module evaluation)
Register(identifier, generator) ==
  /\ styles' = [styles EXCEPT ![identifier] = generator]
  /\ UNCHANGED <<lineString, width, resolution, call, result, seen, given>>
  /\ UNCHANGED <<measureVars, projectVars>>

\* variant: the generator reverses the coordinate array in place
InputAfterReversed(generator, ls) ==
  LineString([i \in 1..Len(ls.coords) |-> ls.coords[Len(ls.coords) + 1 - i]])

\* the base geometry as the generator leaves it: it only reads coords
InputAfter(generator, ls) == ls

\* one call of synthesize with the caller's inputs
Synthesize(identifier) ==
  LET g == styles[identifier]
      r == SynthesizeResult(styles, identifier, lineString, width,
                            resolution)
      ran == r.status # "NotFound" /\ RPositive(width)
             /\ RPositive(resolution)
  IN /\ result' = r
     /\ call' = [id |-> identifier, generator |-> IF ran THEN g ELSE None,
                 repeat |-> ran /\ seen[g] # NoResult]
     /\ seen' = IF ran /\ seen[g] = NoResult
                THEN [seen EXCEPT ![g] = r] ELSE seen
     /\ lineString' = IF ran THEN InputAfter(g, lineString) ELSE lineString
     /\ UNCHANGED <<styles, width, resolution, given>>
     /\ UNCHANGED <<measureVars, projectVars>>

\* ------------------------------------------------------------------------
\* Measure tool
\* ------------------------------------------------------------------------

Null == 0
DrawIds == 1..MaxInteractions

CircleOf(d) == [kind |-> "circle", of |-> d]
MeasureOf(d) == [kind |-> "measure", of |-> d]
NoFeature == [kind |-> "none", of |-> Null]
NoEvent == [type |-> "none", target |-> Null]

MeasureInit ==
  /\ created = 0
  /\ mapDraws = {}
  /\ currentDrawInteraction = Null
  /\ sketching = {}
  /\ circleFeature = NoFeature
  /\ source = {}
  /\ selectedFeatures = {}
  /\ event = NoEvent

\* variant: the current interaction is left on the map
AfterNoRemoval(draws, current) == draws

\* the interactions left on the map by the 'make this idempotent' step
AfterIdempotentRemoval(draws, current) ==
  IF current # Null /\ current \in draws THEN draws \ {current} ELSE draws

\* emitter 'MAP_MEASURE_LENGTH': addDrawInteraction(LINE_STRING).
\* An interaction taken off the map aborts its drawing.
MeasureLength ==
  /\ created < MaxInteractions
  /\ LET d == created + 1
         kept == AfterIdempotentRemoval(mapDraws, currentDrawInteraction)
     IN /\ created' = d
        /\ mapDraws' = kept \cup {d}
        /\ currentDrawInteraction' = d
        /\ sketching' = sketching \cap kept
        /\ event' = [type |-> "MAP_MEASURE_LENGTH", target |-> d]
  /\ UNCHANGED <<circleFeature, source, selectedFeatures>>
  /\ UNCHANGED <<styleVars, projectVars>>

\* 'drawstart' of an attached interaction: the circle helper is created
DrawStart(d) ==
  /\ d \in mapDraws
  /\ d \notin sketching
  /\ sketching' = sketching \cup {d}
  /\ circleFeature' = CircleOf(d)
  /\ source' = source \cup {CircleOf(d)}
  /\ event' = [type |-> "drawstart", target |-> d]
  /\ UNCHANGED <<created, mapDraws, currentDrawInteraction,
                 selectedFeatures>>
  /\ UNCHANGED <<styleVars, projectVars>>

\* 'drawend' of an attached interaction with a drawing in progress; the
\* interaction then inserts the finished feature into its source
DrawEnd(d) ==
  /\ d \in mapDraws
  /\ d \in sketching
  /\ mapDraws' = mapDraws \ {d}
  /\ currentDrawInteraction' = Null
  /\ sketching' = sketching \ {d}
  /\ source' = (source \ {circleFeature}) \cup {MeasureOf(d)}
  /\ event' = [type |-> "drawend", target |-> d]
  /\ UNCHANGED <<created, circleFeature, selectedFeatures>>
  /\ UNCHANGED <<styleVars, projectVars>>

\* the select interaction: line strings and polygons of the layer only
SelectFeature(f) ==
  /\ f \in source
  /\ f.kind = "measure"
  /\ selectedFeatures # {f}
  /\ selectedFeatures' = {f}
  /\ event' = [type |-> "select", target |-> f.of]
  /\ UNCHANGED <<created, mapDraws, currentDrawInteraction, sketching,
                 circleFeature, source>>
  /\ UNCHANGED <<styleVars, projectVars>>

\* emitter 'command/delete'
CommandDelete ==
  /\ source' = source \ selectedFeatures
  /\ selectedFeatures' = {}
  /\ event' = [type |-> "command/delete", target |-> Null]
  /\ UNCHANGED <<created, mapDraws, currentDrawInteraction, sketching,
                 circleFeature>>
  /\ UNCHANGED <<styleVars, projectVars>>

\* ------------------------------------------------------------------------
\* Project list
\* ------------------------------------------------------------------------

Projects == 1..MaxProjects
\* '' (matches every project) and one search text per project
NoFilter == 0
Filters == {NoFilter} \cup Projects
FetchIds == 1..MaxFetches

RECURSIVE SeqOf(_)
\* the ids of a set in ascending order
SeqOf(ids) ==
  IF ids = {} THEN <<>>
  ELSE LET m == CHOOSE x \in ids : \A y \in ids : x <= y
       IN <<m>> \o SeqOf(ids \ {m})

\* projectStore.getProjects(filter): the matching projects as stored
GetProjects(f) ==
  LET ids == SeqOf({p \in store : f = NoFilter \/ f = p})
  IN [i \in 1..Len(ids) |-> [id |-> ids[i], tags |-> "NONE"]]

\* replication.invited(): the invitations the replication API knows of
Invited == LET ids == SeqOf(remote)
           IN [i \in 1..Len(ids) |-> [id |-> ids[i], tags |-> "NONE"]]

\* variant: only the invitations of the replication API are filtered
InvitedProjectsEphemeralUnfiltered(projects, sharedProjects, ephemeralProjects) ==
  LET localProjectIds == {projects[i].id : i \in 1..Len(projects)}
      kept == SelectSeq(sharedProjects, LAMBDA x : x.id \notin localProjectIds)
              \o ephemeralProjects
  IN [i \in 1..Len(kept) |-> [kept[i] EXCEPT !.tags = "INVITED"]]

\* invitedProjects: shared and ephemeral projects not loaded locally, tagged
InvitedProjects(projects, sharedProjects, ephemeralProjects) ==
  LET localProjectIds == {projects[i].id : i \in 1..Len(projects)}
      kept == SelectSeq(sharedProjects \o ephemeralProjects,
                        LAMBDA x : x.id \notin localProjectIds)
  IN [i \in 1..Len(kept) |-> [kept[i] EXCEPT !.tags = "INVITED"]]

\* allProjects
AllProjects(projects, sharedProjects, ephemeralProjects) ==
  projects \o InvitedProjects(projects, sharedProjects, ephemeralProjects)

IdleFetch ==
  [pc |-> "idle", filter |-> NoFilter, replication |-> FALSE,
   ephemeralProjects |-> <<>>, projects |-> <<>>]
NoEntries == [by |-> 0, filter |-> NoFilter, projects |-> <<>>,
              candidates |-> <<>>]

\* the call fetch(projectId, ephemeralProjects) of the callback that closed
\* over filter f and replication r, up to its first await
StartFetch(f, r, ephemeralProjects) ==
  /\ started < MaxFetches
  /\ started' = started + 1
  /\ fetches' = [fetches EXCEPT ![started + 1] =
                   [pc |-> "getProjects", filter |-> f, replication |-> r,
                    ephemeralProjects |-> ephemeralProjects,
                    projects |-> <<>>]]

\* dispatch({ type: 'entries', entries: allProjects }); entriesBy notes the
\* call that dispatched, what it loaded and the invitations it was given
Dispatch(id, projects, sharedProjects) ==
  /\ entries' = AllProjects(projects, sharedProjects,
                            fetches[id].ephemeralProjects)
  /\ entriesBy' = [by |-> id, filter |-> fetches[id].filter,
                   projects |-> projects,
                   candidates |-> sharedProjects
                                  \o fetches[id].ephemeralProjects]

\* projectStore.getProjects(filter) resolves; without replication the call
\* runs on to its dispatch
GetProjectsResolves(id) ==
  /\ fetches[id].pc = "getProjects"
  /\ LET projects == GetProjects(fetches[id].filter)
     IN IF fetches[id].replication
        THEN /\ fetches' = [fetches EXCEPT ![id].pc = "invited",
                                           ![id].projects = projects]
             /\ UNCHANGED <<entries, entriesBy>>
        ELSE /\ fetches' = [fetches EXCEPT ![id].pc = "done",
                                           ![id].projects = projects]
             /\ Dispatch(id, projects, <<>>)
  /\ UNCHANGED <<filter, replication, offline, initialized, initPc,
                 connecting, attempts, store, remote, started>>
  /\ UNCHANGED <<styleVars, measureVars>>

\* replication.invited() resolves and the call dispatches
InvitedResolves(id) ==
  /\ fetches[id].pc = "invited"
  /\ fetches' = [fetches EXCEPT ![id].pc = "done"]
  /\ Dispatch(id, fetches[id].projects, Invited)
  /\ UNCHANGED <<filter, replication, offline, initialized, initPc,
                 connecting, attempts, store, remote, started>>
  /\ UNCHANGED <<styleVars, measureVars>>

\* handleFilterChange: setFilter, then the effect on [fetch] calls fetch
FilterChange(value) ==
  /\ value # filter
  /\ filter' = value
  /\ StartFetch(value, replication, <<>>)
  /\ UNCHANGED <<replication, offline, initialized, initPc, connecting,
                 attempts, store, remote, entries, entriesBy>>
  /\ UNCHANGED <<styleVars, measureVars>>

\* projectStore 'created': fetch(project.id) of the current callback
StoreCreated(p) ==
  /\ p \notin store
  /\ store' = store \cup {p}
  /\ StartFetch(filter, replication, <<>>)
  /\ UNCHANGED <<filter, replication, offline, initialized, initPc,
                 connecting, attempts, remote, entries, entriesBy>>
  /\ UNCHANGED <<styleVars, measureVars>>

\* projectStore 'deleted': fetch() of the current callback
StoreDeleted(p) ==
  /\ p \in store
  /\ store' = store \ {p}
  /\ StartFetch(filter, replication, <<>>)
  /\ UNCHANGED <<filter, replication, offline, initialized, initPc,
                 connecting, attempts, remote, entries, entriesBy>>
  /\ UNCHANGED <<styleVars, measureVars>>

\* 'ipc:post:project/closed': fetch() of the current callback
ProjectClosed ==
  /\ StartFetch(filter, replication, <<>>)
  /\ UNCHANGED <<filter, replication, offline, initialized, initPc,
                 connecting, attempts, store, remote, entries, entriesBy>>
  /\ UNCHANGED <<styleVars, measureVars>>

\* handler.invited: fetch(null, [project]) of the callback the mount effect
\* closed over (filter '', replication undefined)
HandlerInvited(p) ==
  /\ initPc = "done"
  /\ p \notin remote
  /\ remote' = remote \cup {p}
  /\ StartFetch(NoFilter, FALSE, <<[id |-> p, tags |-> "NONE"]>>)
  /\ UNCHANGED <<filter, replication, offline, initialized, initPc,
                 connecting, attempts, store, entries, entriesBy>>
  /\ UNCHANGED <<styleVars, measureVars>>

\* the replication API drops the invitations that have become local projects
RemoteCatchesUp ==
  /\ remote \cap store # {}
  /\ remote' = remote \ store
  /\ UNCHANGED <<filter, replication, offline, initialized, initPc,
                 connecting, attempts, store, fetches, started, entries,
                 entriesBy>>
  /\ UNCHANGED <<styleVars, measureVars>>

\* projectStore 'updated': fetch(project.id) of the current callback
StoreUpdated(p) ==
  /\ p \in store
  /\ StartFetch(filter, replication, <<>>)
  /\ UNCHANGED <<filter, replication, offline, initialized, initPc,
                 connecting, attempts, store, remote, entries, entriesBy>>
  /\ UNCHANGED <<styleVars, measureVars>>

\* handler.renamed: fetch() of the callback the mount effect closed over
HandlerRenamed ==
  /\ initPc = "done"
  /\ StartFetch(NoFilter, FALSE, <<>>)
  /\ UNCHANGED <<filter, replication, offline, initialized, initPc,
                 connecting, attempts, store, remote, entries, entriesBy>>
  /\ UNCHANGED <<styleVars, measureVars>>

\* the effect on [initialized, offline] runs reconnect() after
\* setOffline(value): the value changed and initialized is set
ReconnectEffectRuns(value) == value # offline /\ initialized

\* setOffline(value), then the effect on [initialized, offline]; pending are
\* the attempts still awaiting connect
SetOffline(value, pending) ==
  /\ offline' = value
  /\ IF ReconnectEffectRuns(value)
     THEN /\ attempts < MaxReconnects
          /\ attempts' = attempts + 1
          /\ connecting' = pending \cup {attempts + 1}
     ELSE /\ attempts' = attempts
          /\ connecting' = pending

\* initializeReplication runs to its end: setReplication, setInitialized;
\* the effects on [fetch] and on [initialized, offline] then run
InitializeSucceeds ==
  /\ initPc = "running"
  /\ initPc' = "done"
  /\ replication' = TRUE
  /\ initialized' = TRUE
  /\ StartFetch(filter, TRUE, <<>>)
  /\ attempts < MaxReconnects
  /\ attempts' = attempts + 1
  /\ connecting' = connecting \cup {attempts + 1}
  /\ UNCHANGED <<filter, offline, store, remote, entries, entriesBy>>
  /\ UNCHANGED <<styleVars, measureVars>>

\* initializeReplication throws: the catch block
InitializeFails ==
  /\ initPc = "running"
  /\ initPc' = "failed"
  /\ SetOffline(TRUE, connecting)
  /\ UNCHANGED <<filter, replication, initialized, store, remote, fetches,
                 started, entries, entriesBy>>
  /\ UNCHANGED <<styleVars, measureVars>>

\* reconnect: replicationProvider.connect resolves
ConnectResolves(a) ==
  /\ a \in connecting
  /\ SetOffline(FALSE, connecting \ {a})
  /\ UNCHANGED <<filter, replication, initialized, initPc, store, remote,
                 fetches, started, entries, entriesBy>>
  /\ UNCHANGED <<styleVars, measureVars>>

\* reconnect: replicationProvider.connect rejects with an error
ConnectRejects(a) ==
  /\ a \in connecting
  /\ SetOffline(TRUE, connecting \ {a})
  /\ UNCHANGED <<filter, replication, initialized, initPc, store, remote,
                 fetches, started, entries, entriesBy>>
  /\ UNCHANGED <<styleVars, measureVars>>

\* window 'online': abortController.current.abort('online') rejects the
\* attempt started last, if it still waits
BrowserOnline ==
  /\ initPc = "done"
  /\ attempts \in connecting
  /\ SetOffline(FALSE, connecting \ {attempts})
  /\ UNCHANGED <<filter, replication, initialized, initPc, store, remote,
                 fetches, started, entries, entriesBy>>
  /\ UNCHANGED <<styleVars, measureVars>>

\* handler.error of the replication stream
HandlerError ==
  /\ initPc = "done"
  /\ SetOffline(TRUE, connecting)
  /\ UNCHANGED <<filter, replication, initialized, initPc, store, remote,
                 fetches, started, entries, entriesBy>>
  /\ UNCHANGED <<styleVars, measureVars>>

\* handler.streamToken of the replication stream
HandlerStreamToken ==
  /\ initPc = "done"
  /\ SetOffline(FALSE, connecting)
  /\ UNCHANGED <<filter, replication, initialized, initPc, store, remote,
                 fetches, started, entries, entriesBy>>
  /\ UNCHANGED <<styleVars, measureVars>>

\* the mounted component: the effect on [fetch] has called fetch() and,
\* unless replication is disabled, initializeReplication is under way
ProjectListInit(pc, invitations) ==
  /\ filter = NoFilter
  /\ replication = FALSE
  /\ offline = FALSE
  /\ initialized = FALSE
  /\ initPc = pc
  /\ connecting = {}
  /\ attempts = 0
  /\ store = {1}
  /\ remote = invitations
  /\ fetches = [id \in FetchIds |->
                  IF id = 1 THEN [IdleFetch EXCEPT !.pc = "getProjects"]
                  ELSE IdleFetch]
  /\ started = 1
  /\ entries = <<>>
  /\ entriesBy = NoEntries

\* ------------------------------------------------------------------------
\* Specifications
\* ------------------------------------------------------------------------

\* the style engine, for every input of the bounded sets
Init ==
  /\ \E ls \in BaseLines, w \in Widths, r \in Resolutions :
       StyleInit(ls, w, r)
  /\ MeasureInit
  /\ ProjectListInit("disabled", {})

Next ==
  \/ \E id \in {FRDDFT, CLEAR}, g \in Generators : Register(id, g)
  \/ \E id \in Identifiers : Synthesize(id)

Spec == Init /\ [][Next]_vars

\* the measure tool
MeasureSpecInit ==
  /\ StyleInit(LineString(<<Pt(0, 0), Pt(100, 0)>>), RInt(10), RInt(1))
  /\ MeasureInit
  /\ ProjectListInit("disabled", {})

MeasureNext ==
  \/ MeasureLength
  \/ \E d \in DrawIds : DrawStart(d)
  \/ \E d \in DrawIds : DrawEnd(d)
  \/ \E d \in DrawIds : SelectFeature(MeasureOf(d))
  \/ CommandDelete

MeasureSpec == MeasureSpecInit /\ [][MeasureNext]_vars

\* the project list
ProjectListSpecInit ==
  /\ StyleInit(LineString(<<Pt(0, 0), Pt(100, 0)>>), RInt(10), RInt(1))
  /\ MeasureInit
  /\ \E pc \in {"running", "disabled"}, invitations \in SUBSET Projects :
       ProjectListInit(pc, invitations)

ProjectListNext ==
  \/ \E id \in FetchIds : GetProjectsResolves(id)
  \/ \E id \in FetchIds : InvitedResolves(id)
  \/ \E value \in Filters : FilterChange(value)
  \/ \E p \in Projects : StoreCreated(p)
  \/ \E p \in Projects : StoreUpdated(p)
  \/ \E p \in Projects : StoreDeleted(p)
  \/ ProjectClosed
  \/ \E p \in Projects : HandlerInvited(p)
  \/ HandlerRenamed
  \/ RemoteCatchesUp
  \/ InitializeSucceeds
  \/ InitializeFails
  \/ \E a \in 1..MaxReconnects : ConnectResolves(a)
  \/ \E a \in 1..MaxReconnects : ConnectRejects(a)
  \/ BrowserOnline
  \/ HandlerError
  \/ HandlerStreamToken

ProjectListSpec == ProjectListSpecInit /\ [][ProjectListNext]_vars

\* ------------------------------------------------------------------------
\* Vocabulary of the properties, stated over the caller's inputs
\* ------------------------------------------------------------------------

FirstCoord == given.coords[1]
SecondCoord == given.coords[2]
LastCoord == given.coords[Len(given.coords)]

\* midpoint of the segment first -> last coordinate
BaseMid == VScale(Rat(1, 2), VAdd(FirstCoord, LastCoord))

\* unit vector first -> last (axis-aligned), and its left-hand normal
BaseDir ==
  LET d == VSub(LastCoord, FirstCoord)
      len == RAdd(<<Abs(d.x[1]), d.x[2]>>, <<Abs(d.y[1]), d.y[2]>>)
  IN VScale(RDiv(RInt(1), len), d)
BaseNormal == Coord(RSub(Zero, BaseDir.y), BaseDir.x)

\* bearing first -> last in quarter turns, in (-2, 2]
BaseBearing ==
  IF BaseDir = Pt(1, 0) THEN 0
  ELSE IF BaseDir = Pt(0, 1) THEN 1
  ELSE IF BaseDir = Pt(-1, 0) THEN 2
  ELSE -1

\* floor(width / resolution / 5)
BaseN == (width[1] * resolution[2]) \div (width[2] * resolution[1] * 5)

Offset(origin, k, direction) == VAdd(origin, VScale(k, direction))

\* p lies on the closed segment a-b
OnSegment(p, a, b) ==
  /\ Cross(VSub(b, a), VSub(p, a)) = Zero
  /\ RLeq(Zero, Dot(VSub(p, a), VSub(b, a)))
  /\ RLeq(Dot(VSub(p, a), VSub(b, a)), Dot(VSub(b, a), VSub(b, a)))

PassesThrough(coords, p) ==
  \E i \in 1..(Len(coords) - 1) : OnSegment(p, coords[i], coords[i + 1])

\* the last synthesize ran the generator and it returned primitives
FordDifficultReturned ==
  call.generator = "FordDifficult" /\ result.status = "ok"
ClearReturned == call.generator = "Clear" /\ result.status = "ok"

\* the zig-zag connector's vertices
ZigZag == result.prims[2].geometry.coords

\* vertices lie resolution * 4 behind (-1) resp. ahead (+1) of the midpoint,
\* across the line, starting behind
Alternates(coords) ==
  \A i \in 1..Len(coords) :
    Dot(VSub(coords[i], BaseMid), BaseDir)
      = RMul(RInt(IF i % 2 = 1 THEN -4 ELSE 4), resolution)

ScenarioA ==
  /\ given = LineString(<<Pt(0, 0), Pt(100, 0)>>)
  /\ width = RInt(10)
  /\ resolution = RInt(1)

ScenarioB ==
  /\ given = LineString(<<Pt(0, 0), Pt(10, 0)>>)
  /\ width = RInt(4)

\* ------------------------------------------------------------------------
\* C1
\* ------------------------------------------------------------------------

\* C1 as claimed: whenever the obstacle-boundary generator returns, its
\* zig-zag has exactly n = floor(width/resolution/5) segments, n + 1 vertices
\* alternating between the two sides, and passes through the midpoint of the
\* base line.
C1_ZigZagOfNSegmentsThroughMidpoint ==
  FordDifficultReturned =>
    /\ Len(ZigZag) = BaseN + 1
    /\ Alternates(ZigZag)
    /\ PassesThrough(ZigZag, BaseMid)

\* C1 amended: the zig-zag alternates between the two sides; for odd n it
\* has n segments (n + 1 vertices) and passes through the midpoint, for even
\* n it has n - 1 segments (n vertices) and misses the midpoint; for
\* (0,0)-(100,0), width 10, resolution 1 it is the single segment
\* (46, 20/3)-(54, 0).
C1_ZigZagByParity ==
  FordDifficultReturned =>
    /\ BaseN >= 1
    /\ Alternates(ZigZag)
    /\ IF BaseN % 2 = 1
       THEN Len(ZigZag) = BaseN + 1 /\ PassesThrough(ZigZag, BaseMid)
       ELSE Len(ZigZag) = BaseN /\ ~PassesThrough(ZigZag, BaseMid)
    /\ ScenarioA =>
         ZigZag = <<Coord(RInt(46), Rat(20, 3)), Pt(54, 0)>>

\* the generator returned for scenario A (n = 2)
C1_Witness == FordDifficultReturned /\ ScenarioA /\ BaseN = 2

\* ------------------------------------------------------------------------
\* C2
\* ------------------------------------------------------------------------

\* the parts of the task-boundary stroke group
Parts == result.prims[1].geometry.parts

\* a stroke across the base line through endpoint e
IsTickAt(stroke, e) ==
  /\ Len(stroke.coords) = 2
  /\ stroke.coords[1] # stroke.coords[2]
  /\ \A i \in 1..2 : Dot(VSub(stroke.coords[i], e), BaseDir) = Zero

\* C2 as claimed: apart from the base line and the arrows, every stroke of
\* the task-boundary stroke group is a tick mark perpendicular to the base
\* line at one of its two endpoints; for (0,0)->(10,0), width 4 the ticks
\* reach the offsets +3 and -3.
C2_OnlyTicksAtEndpoints ==
  ClearReturned =>
    /\ \A i \in 1..Len(Parts) :
         (Parts[i].type = "LineString" /\ Parts[i] # given) =>
           (IsTickAt(Parts[i], FirstCoord) \/ IsTickAt(Parts[i], LastCoord))
    /\ ScenarioB =>
         \E i \in 1..Len(Parts) :
           /\ Parts[i].type = "LineString"
           /\ \E j \in 1..Len(Parts[i].coords) :
                Parts[i].coords[j].y = RInt(3)

\* C2 amended: apart from the base line and the three arrows the stroke
\* group holds exactly three strokes: the segment first -> second coordinate
\* shifted by +0.75 * width/2 and by -0.75 * width/2 across the bearing (for
\* a two-vertex line: two lines parallel to it over its whole length), and
\* one cross-bar through the second coordinate reaching +width/2 and
\* -width/2; for (0,0)->(10,0), width 4: y = 3/2 and y = -3/2 from x = 0 to
\* x = 10, and the bar x = 10 from y = 2 to y = -2.
C2_ParallelsAndCrossBar ==
  ClearReturned =>
    LET k == RMul(Rat(3, 8), width)
        h == RMul(Rat(1, 2), width)
        m == RSub(Zero, k)
    IN /\ Len(Parts) = 7
       /\ Parts[1] = given
       /\ Parts[2] = LineString(<<Offset(FirstCoord, k, BaseNormal),
                                  Offset(SecondCoord, k, BaseNormal)>>)
       /\ Parts[3] = LineString(<<Offset(FirstCoord, m, BaseNormal),
                                  Offset(SecondCoord, m, BaseNormal)>>)
       /\ Parts[4] = LineString(<<Offset(SecondCoord, h, BaseNormal),
                                  Offset(SecondCoord, RSub(Zero, h),
                                         BaseNormal)>>)
       /\ \A i \in 5..7 : Parts[i].type = "OpenArrow"
       /\ ScenarioB =>
            /\ Parts[2].coords = <<Coord(RInt(0), Rat(3, 2)),
                                   Coord(RInt(10), Rat(3, 2))>>
            /\ Parts[3].coords = <<Coord(RInt(0), Rat(-3, 2)),
                                   Coord(RInt(10), Rat(-3, 2))>>
            /\ Parts[4].coords = <<Pt(10, 2), Pt(10, -2)>>

\* the generator returned for scenario B
C2_Witness == ClearReturned /\ ScenarioB

\* ------------------------------------------------------------------------
\* C3
\* ------------------------------------------------------------------------

\* C3: on a base line of three or more vertices the task-boundary generator
\* takes bearing and midpoint from first -> last coordinate and anchors the
\* cross-bar and the three arrows at the last coordinate.
C3_AnchoredAtLastCoordinate ==
  (ClearReturned /\ Len(given.coords) >= 3) =>
    LET k == RMul(Rat(3, 8), width)
    IN /\ result.prims[2].anchor = BaseMid
       /\ result.prims[2].rotation = PI - BaseBearing
       /\ IsTickAt(Parts[4], LastCoord)
       /\ Parts[5].coords[1] = Offset(LastCoord, k, BaseNormal)
       /\ Parts[6].coords[1] = LastCoord
       /\ Parts[7].coords[1] = Offset(LastCoord, RSub(Zero, k), BaseNormal)

\* ------------------------------------------------------------------------
\* C4
\* ------------------------------------------------------------------------

Labels == {i \in 1..Len(result.prims) : result.prims[i].kind = "Label"}

\* C4: for every non-degenerate base line the task-boundary generator
\* returns exactly one label: anchored at the midpoint of first -> last
\* coordinate, a single character, flipped, rotated by pi minus the bearing;
\* for (0,0)->(10,0) the anchor is (5,0) and the rotation pi.
C4_OneLabelAtMidpoint ==
  (call.generator = "Clear" /\ FirstCoord # LastCoord) =>
    /\ result.status = "ok"
    /\ Cardinality(Labels) = 1
    /\ \A i \in Labels :
         /\ result.prims[i].anchor = BaseMid
         /\ Len(result.prims[i].text) = 1
         /\ result.prims[i].flip = TRUE
         /\ result.prims[i].rotation = PI - BaseBearing
         /\ ScenarioB =>
              /\ result.prims[i].anchor = Pt(5, 0)
              /\ result.prims[i].rotation = PI

\* the generator returned for a line pointing down (bearing -pi/2)
C4_Witness ==
  ClearReturned /\ BaseBearing = -1 /\ result.prims[2].rotation = 3

\* ------------------------------------------------------------------------
\* C5
\* ------------------------------------------------------------------------

C6_ZeroSubdivisionsRejected ==
  (/\ call.generator = "FordDifficult"
   /\ FirstCoord # LastCoord
   /\ RPositive(width) /\ RPositive(resolution)
   /\ ~RLeq(RMul(RInt(5), resolution), width)) =>
    /\ BaseN = 0
    /\ result = [status |-> "InvalidParameter", prims |-> <<>>]

\* the generator ran with width 5 and resolution 2
C6_Witness ==
  /\ call.generator = "FordDifficult"
  /\ FirstCoord # LastCoord
  /\ width = RInt(5)
  /\ resolution = RInt(2)
  /\ result.status = "InvalidParameter"

\* ------------------------------------------------------------------------
\* C7
\* ------------------------------------------------------------------------

\* C7: registering under an identifier that already has a generator leaves
\* the earlier registration in place (the registration is refused as a
\* ConflictingDefinition), so every identifier keeps the one generator that
\* claimed it.
C7_EarlierRegistrationKept ==
  [][\A id \in Identifiers :
       styles[id] # None => styles'[id] = styles[id]]_vars

\* ------------------------------------------------------------------------
\* C8
\* ------------------------------------------------------------------------

C9_DrawOrder ==
  /\ FordDifficultReturned =>
       /\ Len(result.prims) = 2
       /\ result.prims[1].kind = "Stroke" /\ result.prims[1].dashed
       /\ result.prims[1].geometry.type = "Difference"
       /\ result.prims[2].kind = "Stroke" /\ ~result.prims[2].dashed
       /\ result.prims[2].geometry.type = "LineString"
  /\ ClearReturned =>
       /\ Len(result.prims) = 2
       /\ result.prims[1].kind = "Stroke"
       /\ result.prims[1].geometry.type = "GeometryCollection"
       /\ result.prims[2].kind = "Label"
  /\ \A i, j \in 1..Len(result.prims) :
       (i < j /\ result.prims[i].kind = "Label") =>
         result.prims[j].kind \notin {"Stroke", "Fill"}

\* the task-boundary generator returned on a multi-vertex base line
C9_Witness == ClearReturned /\ Len(given.coords) = 4

\* ------------------------------------------------------------------------
\* C10
\* ------------------------------------------------------------------------

\* C10: at most one draw interaction of the tool is attached to the map and
\* it is the one currentDrawInteraction refers to; after a drawend the
\* finished interaction is off the map and currentDrawInteraction is null.
C10_OneDrawInteraction ==
  /\ Cardinality(mapDraws) <= 1
  /\ mapDraws \subseteq {currentDrawInteraction}
  /\ event.type = "drawend" =>
       /\ event.target \notin mapDraws
       /\ currentDrawInteraction = Null

\* a drawend of the third interaction, after two restarts
C10_Witness ==
  /\ event = [type |-> "drawend", target |-> 3]
  /\ created = 3
  /\ mapDraws = {}
  /\ currentDrawInteraction = Null

\* ------------------------------------------------------------------------
\* C11
\* ------------------------------------------------------------------------

Circles == {f \in source : f.kind = "circle"}

\* C11: the circle helper is in the measurement source only while a
\* line-string drawing is in progress; with no draw interaction on the map,
\* and after every drawend, the source holds no circle helper.
C11_CircleOnlyWhileDrawing ==
  /\ Circles # {} => sketching # {}
  /\ mapDraws = {} => Circles = {}
  /\ event.type = "drawend" => Circles = {}

\* ------------------------------------------------------------------------
\* Project list claims
\* ------------------------------------------------------------------------

LocalIds == {entries[i].id : i \in {j \in 1..Len(entries) : entries[j].tags # "INVITED"}}
InvitedIds == {entries[i].id : i \in {j \in 1..Len(entries) : entries[j].tags = "INVITED"}}

\* C12: in the dispatched entry list no project id is both a local entry and
\* an INVITED entry, and the list starts with the local projects exactly as
\* the dispatching call loaded them, followed by INVITED entries only.
C12_NoLocalAndInvitedDuplicate ==
  LET n == Len(entriesBy.projects)
  IN /\ LocalIds \cap InvitedIds = {}
     /\ Len(entries) >= n
     /\ SubSeq(entries, 1, n) = entriesBy.projects
     /\ \A i \in (n + 1)..Len(entries) : entries[i].tags = "INVITED"

\* a dispatched list with an INVITED entry, from whose invitations (of the
\* replication API or ephemeral) one of a loaded local project was dropped
C12_Witness ==
  /\ entriesBy.by # 0
  /\ InvitedIds # {}
  /\ \E i \in 1..Len(entriesBy.candidates) :
       entriesBy.candidates[i].id \in LocalIds

\* the same with the dropped invitation an ephemeral one
C12_WitnessEphemeral ==
  /\ entriesBy.by # 0
  /\ fetches[entriesBy.by].ephemeralProjects # <<>>
  /\ fetches[entriesBy.by].ephemeralProjects[1].id \in LocalIds

\* C13: while the list is marked offline a reconnect attempt
\* (replicationProvider.connect) is under way; an attempt starts only in the
\* step that changes offline or initialized, so an offline list without one
\* gets none until something else changes offline.
C13_OfflineReconnects == offline => connecting # {}

\* every started call of fetch has dispatched
AllFetchesDone == \A id \in 1..started : fetches[id].pc = "done"

\* C14: once every call of fetch in flight has completed, the entry list
\* dispatched last is the one of the call started last, and it was loaded
\* with the current filter.
C14_LastDispatchIsLatestFetch ==
  AllFetchesDone => entriesBy.by = started /\ entriesBy.filter = filter

====
